---- MODULE Spec2Model ----
(***************************************************************************)
(* Model of build_static.py: the metric aggregator                         *)
(* (compute_total_conversation_time, compute_trajectory_metadata), the     *)
(* detail builders and the staleness reconciler (build_static_site).       *)
(*                                                                         *)
(* Time is counted in ticks of a quarter second, so that sums of           *)
(* durations are exact binary fractions and round(x, 1) is the             *)
(* round-half-even of the exact value.  Rounded results are in tenths of   *)
(* a second.  File modification times are values of a discrete clock.      *)
(***************************************************************************)
EXTENDS Integers, Sequences, FiniteSets, TLC

VARIABLES clock, src, out, index, lastRun, quiet, ops, evs, res

vars == <<clock, src, out, index, lastRun, quiet, ops, evs, res>>

----------------------------------------------------------------------------
(* Bounds of the model. *)

\* longest event list given to the metric computations
MaxLen == 3
\* number of steps of the environment: changes the external logging system
\* makes to the source, and ticks of the file-system clock
MaxSteps == 2

----------------------------------------------------------------------------
(* Timestamps and events. *)

NoTs == [k |-> "none", clock |-> 0, off |-> 0]
BadTs == [k |-> "bad", clock |-> 0, off |-> 0]
Iso(c, o) == [k |-> "iso", clock |-> c, off |-> o]

\* wall-clock reading (ticks) and UTC offset (ticks) of the ISO strings used
IsoStamps == {Iso(0, 0), Iso(16, 0), Iso(17, 4), Iso(20, 0), Iso(40, 0)}
Stamps == {NoTs, BadTs} \cup IsoStamps
Sources == {"user", "agent", "environment"}
Events == [source : Sources, timestamp : Stamps]

\* `if prev_timestamp and curr_timestamp`, `if not event_timestamp`
Truthy(ts) == ts.k # "none"

\* datetime.fromisoformat(ts.replace("Z", "+00:00")) succeeds
Parseable(ts) == ts.k = "iso"

\* the instant a parseable timestamp denotes: wall clock minus UTC offset
Instant(ts) == ts.clock - ts.off

\* (curr_dt - prev_dt).total_seconds(), in ticks
Duration(prev, curr) == Instant(curr) - Instant(prev)

\* Text order of e.get("timestamp", ""): the empty string first, then the
\* ISO strings by their fixed-width wall-clock text, then text starting
\* with a letter.
KeyClass(ts) == CASE ts.k = "none" -> 0 [] ts.k = "iso" -> 1 [] OTHER -> 2
KeyLess(a, b) ==
    \/ KeyClass(a) < KeyClass(b)
    \/ KeyClass(a) = KeyClass(b) /\ a.k = "iso" /\ a.clock < b.clock

\* list.sort is stable: e goes after every element whose key is not greater
RECURSIVE InsertByKey(_, _)
InsertByKey(e, s) ==
    IF s = <<>> THEN <<e>>
    ELSE IF KeyLess(e.timestamp, Head(s).timestamp) THEN <<e>> \o s
    ELSE <<Head(s)>> \o InsertByKey(e, Tail(s))

RECURSIVE SortFrom(_, _)
SortFrom(s, acc) ==
    IF s = <<>> THEN acc ELSE SortFrom(Tail(s), InsertByKey(Head(s), acc))

SortByTimestamp(s) == SortFrom(s, <<>>)

\* round(n / d) for n >= 0, d > 0: nearest integer, ties to even
RoundHalfEven(n, d) ==
    LET fl == n \div d
        r == n % d
    IN IF 2 * r < d THEN fl
       ELSE IF 2 * r > d THEN fl + 1
       ELSE IF fl % 2 = 0 THEN fl ELSE fl + 1

\* round(ticks / count seconds, 1), in tenths of a second
Round1(ticks, count) == RoundHalfEven(5 * ticks, 2 * count)

----------------------------------------------------------------------------
(* compute_total_conversation_time *)

\* the guard with the current event's source in place of the previous one's
SourceCounts_Current(prev_event, curr_event) == curr_event.source # "user"

\* the guard of one loop iteration
SourceCounts(prev_event, curr_event) == prev_event.source # "user"

\* the iteration without the test duration > 0
PairTime_Signed(prev_event, curr_event) ==
    IF /\ SourceCounts(prev_event, curr_event)
       /\ Truthy(prev_event.timestamp) /\ Truthy(curr_event.timestamp)
       /\ Parseable(prev_event.timestamp) /\ Parseable(curr_event.timestamp)
    THEN Duration(prev_event.timestamp, curr_event.timestamp)
    ELSE 0

\* what iteration i adds to total_time
PairTime(prev_event, curr_event) ==
    IF /\ SourceCounts(prev_event, curr_event)
       /\ Truthy(prev_event.timestamp) /\ Truthy(curr_event.timestamp)
       /\ Parseable(prev_event.timestamp) /\ Parseable(curr_event.timestamp)
       /\ Duration(prev_event.timestamp, curr_event.timestamp) > 0
    THEN Duration(prev_event.timestamp, curr_event.timestamp)
    ELSE 0

RECURSIVE TotalLoop(_, _, _)
TotalLoop(events, i, total_time) ==
    IF i > Len(events) THEN total_time
    ELSE TotalLoop(events, i + 1, total_time + PairTime(events[i - 1], events[i]))

compute_total_conversation_time(events) ==
    IF Len(events) < 2 THEN 0 ELSE Round1(TotalLoop(events, 2, 0), 1)

----------------------------------------------------------------------------
(* The average agent turn time of compute_trajectory_metadata. *)

NoTrigger == NoTs

\* the trigger moved by user events only
NextTrigger_UserOnly(event, last) ==
    IF Truthy(event.timestamp) /\ event.source = "user" THEN event.timestamp ELSE last

\* last_trigger_timestamp after the loop body has handled event
NextTrigger(event, last) ==
    IF ~Truthy(event.timestamp) THEN last ELSE event.timestamp

\* the samples the loop body appends for event
TurnSample(event, last) ==
    IF /\ Truthy(event.timestamp)
       /\ event.source = "agent" /\ Truthy(last)
       /\ Parseable(event.timestamp) /\ Parseable(last)
       /\ Duration(last, event.timestamp) > 0
    THEN <<Duration(last, event.timestamp)>>
    ELSE <<>>

RECURSIVE TurnLoop(_, _, _)
TurnLoop(events, last, agent_turn_times) ==
    IF events = <<>> THEN agent_turn_times
    ELSE TurnLoop(Tail(events), NextTrigger(Head(events), last),
                  agent_turn_times \o TurnSample(Head(events), last))

RECURSIVE SumSeq(_)
SumSeq(s) == IF s = <<>> THEN 0 ELSE Head(s) + SumSeq(Tail(s))

AvgOf(agent_turn_times) ==
    IF agent_turn_times = <<>> THEN 0
    ELSE Round1(SumSeq(agent_turn_times), Len(agent_turn_times))

\* lines 114-149: sort, total conversation time, average agent turn time
TimingOf(loaded) ==
    LET events == SortByTimestamp(loaded)
        samples == TurnLoop(events, NoTrigger, <<>>)
    IN [sorted |-> events,
        total |-> compute_total_conversation_time(events),
        samples |-> samples,
        avg |-> AvgOf(samples)]

----------------------------------------------------------------------------
(* Directory entries.  An entry is identified by a label; Chars gives the  *)
(* characters of its file name.                                            *)

IdLen == 32
HexDigits == {"0", "1", "2", "3", "4", "5", "6", "7", "8", "9",
              "a", "b", "c", "d", "e", "f"}

Rep(c, n) == [i \in 1..n |-> c]

SrcNames == {"idA", "idUpper", "idFile", "nameG", "shortHex"}
OutNames == SrcNames \cup {"deadbeef", "notes", "assets"}

FileNames == [name \in OutNames |->
    CASE name = "idA" -> Rep("a", IdLen)
      [] name = "idUpper" -> Rep("F", IdLen)
      [] name = "idFile" -> Rep("b", IdLen)
      [] name = "nameG" -> Rep("a", IdLen - 1) \o <<"g">>
      [] name = "shortHex" -> Rep("a", 10)
      [] name = "deadbeef" ->
            <<"d", "e", "a", "d", "b", "e", "e", "f">> \o Rep("0", IdLen - 8)
      [] name = "notes" -> <<"n", "o", "t", "e", "s">>
      [] name = "assets" -> <<"a", "s", "s", "e", "t", "s">>]

Chars(name) == FileNames[name]

\* str.lower() on the characters that occur in names
Lower(c) ==
    CASE c = "A" -> "a" [] c = "B" -> "b" [] c = "C" -> "c"
      [] c = "D" -> "d" [] c = "E" -> "e" [] c = "F" -> "f"
      [] c = "G" -> "g" [] OTHER -> c

\* the test without the length
LooksLikeId_AnyLength(name) ==
    \A i \in 1..Len(Chars(name)) : Lower(Chars(name)[i]) \in HexDigits

\* len(entry.name) == 32 and all(c in "0123456789abcdef" for c in entry.name.lower())
LooksLikeId(name) ==
    LET text == Chars(name)
    IN /\ Len(text) = IdLen
       /\ \A i \in 1..Len(text) : Lower(text[i]) \in HexDigits

----------------------------------------------------------------------------
(* JSON values: objects, strings, integers, null. *)

JNull == [t |-> "null"]
JStr(s) == [t |-> "str", s |-> s]
JInt(n) == [t |-> "int", n |-> n]
JObj(f) == [t |-> "obj", f |-> f]
JEmpty == JObj(<<>>)

\* isinstance(v, dict)
IsDict(v) == v.t = "obj"
IsInt(v) == v.t = "int"
\* d.get(key, default) on a dict d
DictGet(d, key, default) == IF key \in DOMAIN d.f THEN d.f[key] ELSE default

GoodDoc ==
    JObj([agent |-> JObj([id |-> JStr("t1"),
                          llm |-> JObj([model |-> JStr("m1")])]),
          stats |-> JObj([usage_to_metrics |-> JObj([agent |->
              JObj([accumulated_token_usage |->
                  JObj([prompt_tokens |-> JInt(200),
                        completion_tokens |-> JInt(30),
                        reasoning_tokens |-> JInt(7),
                        cache_read_tokens |-> JInt(50)])])])])])
\* agent is not a record, the usage chain stops at an empty stats record
LooseDoc == JObj([agent |-> JStr("x"), stats |-> JEmpty])
\* an intermediate value of the usage chain is null
NullStatsDoc == JObj([agent |-> JObj([id |-> JStr("t2")]), stats |-> JNull])

\* contents of a base_state.json: text that is not JSON, or a document
BaseTexts == {[parse |-> FALSE, doc |-> JNull],
              [parse |-> TRUE, doc |-> GoodDoc],
              [parse |-> TRUE, doc |-> LooseDoc],
              [parse |-> TRUE, doc |-> NullStatsDoc]}

\* contents of an event file: text that is not JSON, or one event
BrokenEvent == [parse |-> FALSE, ev |-> [source |-> "user", timestamp |-> NoTs]]
EventTexts == {BrokenEvent,
               [parse |-> TRUE, ev |-> [source |-> "user", timestamp |-> Iso(0, 0)]],
               [parse |-> TRUE, ev |-> [source |-> "agent", timestamp |-> Iso(17, 4)]]}

----------------------------------------------------------------------------
(* The source tree and the output tree. *)

NoBase == [exists |-> FALSE, mtime |-> 0, parse |-> FALSE, doc |-> JNull]
NoEntry == [kind |-> "none", mtime |-> 0, base |-> NoBase, evdir |-> FALSE,
            files |-> <<>>]
EmptyDir(t) == [NoEntry EXCEPT !.kind = "dir", !.mtime = t]
PlainFile(t) == [NoEntry EXCEPT !.kind = "file", !.mtime = t]

\* events_dir.glob("event-*.json"), sorted: the files in file-name order
RECURSIVE LoadEvents(_)
\* json.load of each file, the ones that fail to parse skipped
LoadEvents(files) ==
    IF files = <<>> THEN <<>>
    ELSE (IF Head(files).parse THEN <<Head(files).ev>> ELSE <<>>)
         \o LoadEvents(Tail(files))

build_events(entry) == IF ~entry.evdir THEN <<>> ELSE LoadEvents(entry.files)

----------------------------------------------------------------------------
(* compute_trajectory_metadata *)

Crashed == [crash |-> TRUE]

\* lines 79-86: title and model
TitleOf(id, base_state) ==
    IF "agent" \in DOMAIN base_state.f /\ IsDict(DictGet(base_state, "agent", JEmpty))
    THEN DictGet(DictGet(base_state, "agent", JEmpty), "id", JStr(id))
    ELSE JStr(id)

ModelOf(base_state) ==
    IF "agent" \in DOMAIN base_state.f /\ IsDict(DictGet(base_state, "agent", JEmpty))
    THEN LET llm == DictGet(DictGet(base_state, "agent", JEmpty), "llm", JEmpty)
         IN IF IsDict(llm) THEN DictGet(llm, "model", JNull) ELSE JNull
    ELSE JNull

\* lines 88-95: the chain of .get calls; each needs a dict to be called on
TokenUsage(base_state) ==
    LET stats == DictGet(base_state, "stats", JEmpty)
    IN IF ~IsDict(stats) THEN Crashed
       ELSE LET usage == DictGet(stats, "usage_to_metrics", JEmpty)
            IN IF ~IsDict(usage) THEN Crashed
               ELSE LET agent_usage == DictGet(usage, "agent", JEmpty)
                    IN IF ~IsDict(agent_usage) THEN Crashed
                       ELSE LET token_usage ==
                                    DictGet(agent_usage, "accumulated_token_usage", JEmpty)
                            IN IF ~IsDict(token_usage) THEN Crashed
                               ELSE [crash |-> FALSE,
                                     prompt |-> DictGet(token_usage, "prompt_tokens", JInt(0)),
                                     completion |-> DictGet(token_usage, "completion_tokens", JInt(0)),
                                     reasoning |-> DictGet(token_usage, "reasoning_tokens", JInt(0)),
                                     cache |-> DictGet(token_usage, "cache_read_tokens", JInt(0))]

DefaultUsage == [crash |-> FALSE, prompt |-> JInt(0), completion |-> JInt(0),
                 reasoning |-> JInt(0), cache |-> JInt(0)]

\* lines 73-97: what reading base_state.json leaves in the local variables
ReadBaseState(id, base) ==
    IF ~base.exists \/ ~base.parse
    THEN [crash |-> FALSE, title |-> JStr(id), model |-> JNull, usage |-> DefaultUsage]
    ELSE IF ~IsDict(base.doc) THEN Crashed
    ELSE LET usage == TokenUsage(base.doc)
         IN IF usage.crash THEN Crashed
            ELSE [crash |-> FALSE, title |-> TitleOf(id, base.doc),
                  model |-> ModelOf(base.doc), usage |-> usage]

\* lines 151-154: round((cache_read_tokens / prompt_tokens) * 100)
CachePct(prompt_tokens, cache_read_tokens) ==
    IF prompt_tokens > 0 THEN RoundHalfEven(100 * cache_read_tokens, prompt_tokens)
    ELSE 0

\* lines 151-170: the summary, from the values the two blocks above leave
Summary(id, entry, read, timing) ==
    IF read.crash THEN Crashed
    ELSE IF ~IsInt(read.usage.prompt) \/ ~IsInt(read.usage.completion) THEN Crashed
    ELSE IF read.usage.prompt.n > 0 /\ ~IsInt(read.usage.cache) THEN Crashed
    ELSE [crash |-> FALSE,
          id |-> id,
          title |-> read.title,
          model |-> read.model,
          created |-> entry.mtime,
          eventCount |-> IF entry.evdir THEN Len(entry.files) ELSE 0,
          promptTokens |-> read.usage.prompt.n,
          completionTokens |-> read.usage.completion.n,
          reasoningTokens |-> read.usage.reasoning,
          cacheReadTokens |-> read.usage.cache,
          cachePct |-> CachePct(read.usage.prompt.n,
                                IF IsInt(read.usage.cache) THEN read.usage.cache.n ELSE 0),
          totalTokens |-> read.usage.prompt.n + read.usage.completion.n,
          avgAgentTurnTime |-> IF entry.evdir THEN timing.avg ELSE 0,
          totalConversationTime |-> IF entry.evdir THEN timing.total ELSE 0]

\* (the two blocks are each evaluated once: a value bound by \in is a value)
compute_trajectory_metadata(id, entry) ==
    CHOOSE summary \in {Summary(id, entry, read, timing) :
                            read \in {ReadBaseState(id, entry.base)},
                            timing \in {TimingOf(build_events(entry))}} : TRUE

----------------------------------------------------------------------------
(* build_trajectory_detail *)

build_trajectory_detail(id, entry) ==
    LET loaded == entry.base.exists /\ entry.base.parse
        agent == IF loaded THEN DictGet(entry.base.doc, "agent", JEmpty) ELSE JNull
        llm == IF loaded /\ IsDict(agent) THEN DictGet(agent, "llm", JEmpty) ELSE JNull
    IN [id |-> id,
        created |-> entry.mtime,
        eventCount |-> IF entry.evdir THEN Len(entry.files) ELSE 0,
        hasBaseState |-> loaded,
        baseState |-> IF loaded THEN entry.base.doc ELSE JNull,
        hasModel |-> loaded /\ IsDict(agent) /\ IsDict(llm),
        model |-> IF loaded /\ IsDict(agent) /\ IsDict(llm)
                  THEN DictGet(llm, "model", JNull) ELSE JNull]

----------------------------------------------------------------------------
(* The output tree: data/<name>/trajectory.json and data/<name>/events.json. *)

NoDetail == build_trajectory_detail("", NoEntry)
NoTrajFile == [exists |-> FALSE, content |-> NoDetail]
NoEventsFile == [exists |-> FALSE, mtime |-> 0, content |-> <<>>]
NoOut == [kind |-> "none", traj |-> NoTrajFile, events |-> NoEventsFile]
StrayFile == [NoOut EXCEPT !.kind = "file"]
OldOutput ==
    [kind |-> "dir",
     traj |-> [exists |-> TRUE, content |-> build_trajectory_detail("deadbeef", EmptyDir(0))],
     events |-> [exists |-> TRUE, mtime |-> 0, content |-> <<>>]]

NoIndex == [exists |-> FALSE, content |-> <<>>]

Max(a, b) == IF a >= b THEN a ELSE b

RECURSIVE NewestFile(_, _)
\* lines 262-263: the loop over the event files
NewestFile(files, mtime) ==
    IF files = <<>> THEN mtime
    ELSE NewestFile(Tail(files), Max(mtime, Head(files).mtime))

\* the newest time without base_state.json
get_source_mtime_NoBase(entry) ==
    IF entry.evdir THEN NewestFile(entry.files, entry.mtime) ELSE entry.mtime

get_source_mtime(entry) ==
    LET m1 == entry.mtime
        m2 == IF entry.base.exists THEN Max(m1, entry.base.mtime) ELSE m1
    IN IF entry.evdir THEN NewestFile(entry.files, m2) ELSE m2

\* the comparison made strict
UpToDate_Strict(entry, output) ==
    /\ output.kind = "dir" /\ output.events.exists
    /\ get_source_mtime(entry) < output.events.mtime

\* lines 309-314: events.json exists and is not older than the source
UpToDate(entry, output) ==
    /\ output.kind = "dir" /\ output.events.exists
    /\ get_source_mtime(entry) <= output.events.mtime

\* lines 294-298: the entries that are handled as trajectories
IsTrajectory(name, entry) == entry.kind = "dir" /\ LooksLikeId(name)

\* the test with is_file() in place of is_dir()
IsOrphan_Files(name, output, source_ids) ==
    output.kind = "file" /\ name \notin source_ids

\* line 334: the output entries removed after the loop
IsOrphan(name, output, source_ids) == output.kind = "dir" /\ name \notin source_ids

\* the sort without reverse=True
InOrder_Ascending(first, second) == first.mtime <= second.mtime

\* lines 290-292: sorted(..., key=mtime, reverse=True) of a listing in any order
InOrder(first, second) == first.mtime >= second.mtime

RECURSIVE Perms(_)
Perms(S) ==
    IF S = {} THEN {<<>>}
    ELSE UNION {{<<x>> \o p : p \in Perms(S \ {x})} : x \in S}

Listings(tree) ==
    {p \in Perms({n \in SrcNames : tree[n].kind # "none"}) :
        \A i \in 1..(Len(p) - 1) : InOrder(tree[p[i]], tree[p[i + 1]])}

\* lines 316-329: the files written for a stale trajectory, at time now
Rebuilt(name, entry, now) ==
    [kind |-> "dir",
     traj |-> [exists |-> TRUE, content |-> build_trajectory_detail(name, entry)],
     events |-> [exists |-> TRUE, mtime |-> now, content |-> build_events(entry)]]

\* overwritten is instrumentation: the rebuilt ones whose events.json existed
LoopStart(output) ==
    [out |-> output, trajectories |-> <<>>, source_ids |-> {}, rebuilt |-> {},
     skipped |-> {}, overwritten |-> {}, crashed |-> FALSE]

\* lines 305-329: after the metadata is appended, skip or rebuild
SkipOrRebuild(st, listed, name, entry, now) ==
    IF UpToDate(entry, st.out[name])
    THEN [listed EXCEPT !.skipped = @ \cup {name}]
    ELSE IF st.out[name].kind = "file"
    THEN [listed EXCEPT !.crashed = TRUE]
    ELSE [listed EXCEPT !.rebuilt = @ \cup {name},
                        !.overwritten = IF st.out[name].events.exists
                                        THEN @ \cup {name} ELSE @,
                        !.out[name] = Rebuilt(name, entry, now)]

\* lines 299-329: a trajectory, with its metadata computed
Handle(st, metadata, name, entry, now) ==
    IF metadata.crash
    THEN [st EXCEPT !.source_ids = @ \cup {name}, !.crashed = TRUE]
    ELSE SkipOrRebuild(st,
                       [st EXCEPT !.source_ids = @ \cup {name},
                                  !.trajectories = Append(@, metadata)],
                       name, entry, now)

\* lines 294-329: one iteration of the loop over the source entries
\* (before is evaluated once: a value bound by \in is a value)
LoopBody(before, name, entry, now) ==
    CHOOSE after \in
        {IF st.crashed \/ ~IsTrajectory(name, entry) THEN st
         ELSE CHOOSE handled \in
                  {Handle(st, metadata, name, entry, now) :
                      metadata \in {compute_trajectory_metadata(name, entry)}} : TRUE
         : st \in {before}} : TRUE

RECURSIVE Loop(_, _, _, _)
Loop(st, order, tree, now) ==
    IF order = <<>> THEN st
    ELSE Loop(LoopBody(st, Head(order), tree[Head(order)], now), Tail(order), tree, now)

\* lines 331-337
RemoveOrphans(output, source_ids) ==
    [n \in OutNames |-> IF IsOrphan(n, output[n], source_ids) THEN NoOut ELSE output[n]]

----------------------------------------------------------------------------
(* State. *)

NoRun == [bit |-> 0, ran |-> FALSE, crashed |-> FALSE, quietBefore |-> FALSE,
          source_ids |-> {}, rebuilt |-> {}, skipped |-> {}, overwritten |-> {},
          removed |-> {}, wroteIndex |-> FALSE]

\* the source before the first run holds one logged conversation, made at
\* time 3 (and two directories with other names and a plain file with a
\* 32-character hexadecimal name, made at times 0, 1 and 2)
FirstTrajectory ==
    [kind |-> "dir", mtime |-> 3,
     base |-> [exists |-> TRUE, mtime |-> 3, parse |-> TRUE, doc |-> GoodDoc],
     evdir |-> TRUE,
     files |-> <<[mtime |-> 3, parse |-> TRUE,
                  ev |-> [source |-> "user", timestamp |-> Iso(0, 0)]]>>]

NoRes == [done |-> FALSE, sorted |-> <<>>, total |-> 0, samples |-> <<>>, avg |-> 0]

FsInit ==
    /\ clock = 3
    /\ src = [n \in SrcNames |->
                 CASE n = "idA" -> FirstTrajectory
                   [] n = "nameG" -> EmptyDir(0)
                   [] n = "shortHex" -> EmptyDir(1)
                   [] n = "idFile" -> PlainFile(2)
                   [] OTHER -> NoEntry]
    /\ out = [n \in OutNames |->
                 CASE n \in {"deadbeef", "assets"} -> OldOutput
                   [] n = "notes" -> StrayFile
                   [] OTHER -> NoOut]
    /\ index = NoIndex
    /\ lastRun = NoRun
    /\ quiet = FALSE
    /\ ops = 0

Init == FsInit /\ evs = <<>> /\ res = NoRes

----------------------------------------------------------------------------
(* The external logging system changes the source; time passes. *)

Tick ==
    /\ ops < MaxSteps
    /\ clock' = clock + 1
    /\ ops' = ops + 1
    /\ UNCHANGED <<src, out, index, lastRun, quiet, evs, res>>

Changed(tree) ==
    /\ ops < MaxSteps
    /\ src' = tree
    /\ ops' = ops + 1
    /\ quiet' = FALSE
    /\ UNCHANGED <<clock, out, index, lastRun, evs, res>>

Creatable == {<<"idA", "dir">>, <<"idUpper", "dir">>, <<"idFile", "file">>,
              <<"nameG", "dir">>, <<"shortHex", "dir">>}

CreateEntry ==
    \E c \in Creatable :
        /\ src[c[1]].kind = "none"
        /\ Changed([src EXCEPT ![c[1]] =
               IF c[2] = "dir" THEN EmptyDir(clock) ELSE PlainFile(clock)])

RemoveEntry ==
    \E n \in SrcNames :
        /\ src[n].kind # "none"
        /\ Changed([src EXCEPT ![n] = NoEntry])

\* creating base_state.json changes the trajectory directory; rewriting it does not
WriteBaseState ==
    \E text \in BaseTexts :
        /\ src["idA"].kind = "dir"
        /\ Changed([src EXCEPT
               !["idA"].base = [exists |-> TRUE, mtime |-> clock,
                              parse |-> text.parse, doc |-> text.doc],
               !["idA"].mtime = IF src["idA"].base.exists THEN @ ELSE clock])

\* a new file events/event-*.json, named after the ones there; events/ is made if missing
AddEventFile ==
    \E text \in EventTexts :
        /\ src["idA"].kind = "dir"
        /\ Changed([src EXCEPT
               !["idA"].files = Append(@, [mtime |-> clock, parse |-> text.parse, ev |-> text.ev]),
               !["idA"].evdir = TRUE,
               !["idA"].mtime = IF src["idA"].evdir THEN @ ELSE clock])

RewriteEventFile ==
    \E i \in 1..Len(src["idA"].files), text \in EventTexts :
        /\ src["idA"].kind = "dir"
        /\ Changed([src EXCEPT
               !["idA"].files[i] = [mtime |-> clock, parse |-> text.parse, ev |-> text.ev]])

\* unlinking an event file changes events/, not the trajectory directory
DeleteEventFile ==
    \E i \in 1..Len(src["idA"].files) :
        /\ src["idA"].kind = "dir"
        /\ Changed([src EXCEPT
               !["idA"].files = SubSeq(@, 1, i - 1) \o SubSeq(@, i + 1, Len(@))])

----------------------------------------------------------------------------
(* build_static_site, lines 267-343. *)

Build ==
    \E order \in Listings(src) :
      \E st \in {Loop(LoopStart(out), order, src, clock)} :
        LET removed == {n \in OutNames : IsOrphan(n, st.out[n], st.source_ids)}
        IN /\ out' = IF st.crashed THEN st.out ELSE RemoveOrphans(st.out, st.source_ids)
           /\ index' = IF st.crashed THEN index
                       ELSE [exists |-> TRUE, content |-> st.trajectories]
           /\ lastRun' = [bit |-> 1 - lastRun.bit,
                          ran |-> TRUE,
                          crashed |-> st.crashed,
                          quietBefore |-> quiet /\ ~lastRun.crashed,
                          source_ids |-> st.source_ids,
                          rebuilt |-> st.rebuilt,
                          skipped |-> st.skipped,
                          overwritten |-> st.overwritten,
                          removed |-> IF st.crashed THEN {} ELSE removed,
                          wroteIndex |-> ~st.crashed]
           /\ quiet' = TRUE
           /\ UNCHANGED <<clock, src, ops, evs, res>>

Next ==
    \/ Tick
    \/ CreateEntry
    \/ RemoveEntry
    \/ WriteBaseState
    \/ AddEventFile
    \/ RewriteEventFile
    \/ DeleteEventFile
    \/ Build

Spec == Init /\ [][Next]_vars

\* The same system when the clock is fine enough to tell every change of the
\* source from the writes of the run before it: the source changes only
\* when the clock is past the modification time of every events.json.
AfterOutputs ==
    \A n \in OutNames : out[n].events.exists => out[n].events.mtime < clock

SpacedChange ==
    /\ AfterOutputs
    /\ \/ CreateEntry
       \/ RemoveEntry
       \/ WriteBaseState
       \/ AddEventFile
       \/ RewriteEventFile
       \/ DeleteEventFile

SpacedNext == Tick \/ SpacedChange \/ Build

SpacedSpec == Init /\ [][SpacedNext]_vars

----------------------------------------------------------------------------
(* The metric computations on event lists of every shape. *)

RECURSIVE SeqsUpTo(_, _)
SeqsUpTo(S, n) ==
    IF n = 0 THEN {<<>>}
    ELSE LET shorter == SeqsUpTo(S, n - 1)
         IN shorter \cup {Append(s, x) : s \in {t \in shorter : Len(t) = n - 1}, x \in S}

MetricsInit ==
    /\ FsInit
    /\ evs \in SeqsUpTo(Events, MaxLen)
    /\ res = NoRes

ComputeMetrics ==
    /\ ~res.done
    /\ res' = [done |-> TRUE] @@ TimingOf(evs)
    /\ UNCHANGED <<evs, clock, src, out, index, lastRun, quiet, ops>>

MetricsNext == ComputeMetrics

MetricsSpec == MetricsInit /\ [][MetricsNext]_vars

----------------------------------------------------------------------------
(* Properties of the metric computations, checked under MetricsSpec.       *)

RECURSIVE SumFn(_, _)
SumFn(f, S) ==
    IF S = {} THEN 0
    ELSE LET x == CHOOSE y \in S : TRUE IN f[x] + SumFn(f, S \ {x})

\* both timestamps present and parseable, and the second strictly later
PositiveGap(a, b) == a.k = "iso" /\ b.k = "iso" /\ Instant(b) > Instant(a)
Gap(a, b) == Instant(b) - Instant(a)

\* r tenths of a second is ticks / n seconds rounded to one decimal
IsRounded(r, ticks, n) == 2 * n * r - 5 * ticks \in (0 - n)..n

\* the adjacent pairs whose predecessor is not from the user
CountedPairs(events) ==
    {i \in 2..Len(events) :
        /\ events[i - 1].source # "user"
        /\ PositiveGap(events[i - 1].timestamp, events[i].timestamp)}

StatedTotal(events) ==
    SumFn([i \in CountedPairs(events) |->
              Gap(events[i - 1].timestamp, events[i].timestamp)],
          CountedPairs(events))

\* five seconds, in ticks
FiveSeconds == Gap(Iso(0, 0), Iso(20, 0))

\* C7: the total conversation time of a timestamp-ordered event list is the
\* sum of the strictly positive durations of the adjacent pairs whose first
\* event is not from the user and whose timestamps are both present and
\* parseable, rounded to one decimal; 0 for fewer than two events; 5.0 for
\* an agent event followed five seconds later by a user event.
C7_TotalConversationTime ==
    res.done =>
        /\ IsRounded(res.total, StatedTotal(res.sorted), 1)
        /\ Len(res.sorted) < 2 => res.total = 0
        /\ ( /\ Len(res.sorted) = 2
             /\ res.sorted[1].source = "agent" /\ res.sorted[2].source = "user"
             /\ PositiveGap(res.sorted[1].timestamp, res.sorted[2].timestamp)
             /\ Gap(res.sorted[1].timestamp, res.sorted[2].timestamp) = FiveSeconds )
           => res.total = 50

\* a user event, then an agent event 3.25 s later (not counted), then an
\* event 1.75 s after that (counted, and rounded to 1.8)
C7_Witness ==
    /\ res.done
    /\ Len(res.sorted) = 3
    /\ res.sorted[1].source = "user"
    /\ PositiveGap(res.sorted[1].timestamp, res.sorted[2].timestamp)
    /\ CountedPairs(res.sorted) = {3}
    /\ StatedTotal(res.sorted) = 7
    /\ res.total = 18

\* the events that give a sample: an agent event whose immediate predecessor
\* has a timestamp, with a parseable, strictly positive duration between them
GivesSample(events, i) ==
    /\ i >= 2
    /\ events[i].source = "agent"
    /\ events[i - 1].timestamp.k # "none"
    /\ PositiveGap(events[i - 1].timestamp, events[i].timestamp)

RECURSIVE StatedSamples(_, _)
StatedSamples(events, n) ==
    IF n = 0 THEN <<>>
    ELSE StatedSamples(events, n - 1) \o
         (IF GivesSample(events, n)
          THEN <<Gap(events[n - 1].timestamp, events[n].timestamp)>> ELSE <<>>)

\* C8: the average agent turn time is the mean, rounded to one decimal and 0
\* without samples, of one sample per agent event: the duration from the
\* immediately preceding event's timestamp, when parseable and strictly
\* positive; a user event followed by agent events 4 and 10 seconds later
\* gives the samples 4 and 6 and the average 5.0.
C8_AvgAgentTurnTime ==
    res.done =>
        LET stated == StatedSamples(res.sorted, Len(res.sorted))
            sum == SumFn(stated, DOMAIN stated)
        IN /\ res.samples = stated
           /\ stated = <<>> => res.avg = 0
           /\ stated # <<>> => IsRounded(res.avg, sum, Len(stated))
           /\ res.sorted = <<[source |-> "user", timestamp |-> Iso(0, 0)],
                             [source |-> "agent", timestamp |-> Iso(16, 0)],
                             [source |-> "agent", timestamp |-> Iso(40, 0)]>>
              => res.samples = <<16, 24>> /\ res.avg = 50

\* two agent events in a row: the second is measured from the first, not
\* from the user event before them
C8_Witness ==
    /\ res.done
    /\ Len(res.sorted) = 3
    /\ res.sorted[1].source = "user"
    /\ res.sorted[2].source = "agent"
    /\ res.sorted[3].source = "agent"
    /\ res.samples = <<16, 24>>
    /\ res.avg = 50

\* C9, as stated: when every event but the first is from the user, the total
\* conversation time is 0.
C9_AllButFirstUser ==
    (res.done /\ \A i \in 2..Len(res.sorted) : res.sorted[i].source = "user")
        => res.total = 0

\* C9, amended: when every event but the last is from the user (so that no
\* pair has a predecessor from another source), the total conversation time
\* is 0.
C9_AllButLastUser ==
    (res.done /\ \A i \in 1..(Len(res.sorted) - 1) : res.sorted[i].source = "user")
        => res.total = 0

C9_Witness ==
    /\ res.done
    /\ Len(res.sorted) = 3
    /\ res.sorted[1].source = "user" /\ res.sorted[2].source = "user"
    /\ res.sorted[3].source = "agent"
    /\ PositiveGap(res.sorted[1].timestamp, res.sorted[2].timestamp)
    /\ PositiveGap(res.sorted[2].timestamp, res.sorted[3].timestamp)
    /\ res.total = 0

----------------------------------------------------------------------------
(* Properties of build_static_site, checked under Spec.                    *)

\* a step of Build: every run flips lastRun.bit
RunStep == lastRun'.bit # lastRun.bit

\* the last run returned, and the source is as that run saw it
Settled == lastRun.ran /\ ~lastRun.crashed /\ quiet

UpperHex == {"A", "B", "C", "D", "E", "F"}

\* a directory named by 32 lowercase hexadecimal characters
IsLowerHexDir(n) ==
    /\ src[n].kind = "dir"
    /\ Len(FileNames[n]) = 32
    /\ \A i \in 1..Len(FileNames[n]) : FileNames[n][i] \in HexDigits

\* a directory named by 32 hexadecimal characters of either case
IsHexDir(n) ==
    /\ src[n].kind = "dir"
    /\ Len(FileNames[n]) = 32
    /\ \A i \in 1..Len(FileNames[n]) : FileNames[n][i] \in HexDigits \cup UpperHex

IndexIds == {index.content[i].id : i \in 1..Len(index.content)}

\* events.json is missing, or a source artifact is strictly newer than it
IsStale(n) ==
    \/ ~(out[n].kind = "dir" /\ out[n].events.exists)
    \/ src[n].mtime > out[n].events.mtime
    \/ src[n].base.exists /\ src[n].base.mtime > out[n].events.mtime
    \/ /\ src[n].evdir
       /\ \E i \in 1..Len(src[n].files) : src[n].files[i].mtime > out[n].events.mtime

\* C1: a run that follows a completed run with no source change in between
\* finds every trajectory FRESH, rewrites no trajectory.json and no
\* events.json, and both runs write trajectories.json.
C1_Idempotent ==
    [][(RunStep /\ quiet /\ lastRun.ran /\ ~lastRun.crashed) =>
          /\ ~lastRun'.crashed
          /\ lastRun'.rebuilt = {}
          /\ lastRun'.skipped = lastRun'.source_ids
          /\ lastRun'.skipped = {n \in SrcNames : IsHexDir(n)}
          /\ out' = out
          /\ lastRun.wroteIndex /\ lastRun'.wroteIndex /\ index'.exists]_vars

C1_Witness ==
    /\ lastRun.ran /\ ~lastRun.crashed /\ lastRun.quietBefore
    /\ lastRun.skipped # {}
    /\ lastRun.rebuilt = {}
    /\ index.exists

\* C2: a run rebuilds a trajectory (writes its trajectory.json and its
\* events.json) exactly when it is STALE: events.json missing, or the
\* trajectory directory, base_state.json or an event file strictly newer
\* than events.json; the outputs of a FRESH trajectory are left as they were.
C2_RebuildIffStale ==
    [][RunStep =>
          \A n \in SrcNames :
              /\ (~lastRun'.crashed /\ IsHexDir(n))
                     => n \in lastRun'.rebuilt \cup lastRun'.skipped
              /\ n \in lastRun'.rebuilt =>
                     /\ IsStale(n)
                     /\ out'[n].kind = "dir"
                     /\ out'[n].traj.exists /\ out'[n].events.exists
                     /\ out'[n].events.mtime = clock
              /\ n \in lastRun'.skipped => (~IsStale(n) /\ out'[n] = out[n])]_vars

\* a trajectory rebuilt only because base_state.json was rewritten after
\* events.json had been written
C2_Witness ==
    /\ lastRun.ran /\ ~lastRun.crashed /\ quiet
    /\ "idA" \in lastRun.overwritten
    /\ src["idA"].base.exists
    /\ src["idA"].base.mtime > src["idA"].mtime
    /\ \A i \in 1..Len(src["idA"].files) :
           src["idA"].files[i].mtime < src["idA"].base.mtime

\* C3, as stated: after a run, every entry of the data directory whose name
\* is not a source trajectory ID of that run is gone.
C3_EveryOtherEntryRemoved ==
    (lastRun.ran /\ ~lastRun.crashed) =>
        \A n \in OutNames : n \notin lastRun.source_ids => out[n].kind = "none"

\* C3, amended: after a run, every directory of the data directory whose
\* name is not a source trajectory ID of that run is gone (so is the
\* directory with the 32-character hexadecimal name "deadbeef..."); entries
\* that are not directories stay.
C3_OtherDirectoriesRemoved ==
    /\ out["notes"].kind = "file"
    /\ (lastRun.ran /\ ~lastRun.crashed) =>
           /\ \A n \in OutNames : n \notin lastRun.source_ids => out[n].kind # "dir"
           /\ \A n \in lastRun.removed : out[n] = NoOut

C3_Witness ==
    /\ lastRun.ran /\ ~lastRun.crashed
    /\ {"deadbeef", "assets"} \subseteq lastRun.removed
    /\ out["deadbeef"].kind = "none"
    /\ out["idA"].kind = "dir"

\* C4, as stated: a source entry is handled as a trajectory exactly when it
\* is a directory named by 32 lowercase hexadecimal characters.
C4_LowercaseOnly ==
    Settled => \A n \in SrcNames : n \in lastRun.source_ids <=> IsLowerHexDir(n)

\* C4, amended: a source entry is handled as a trajectory exactly when it is
\* a directory named by 32 hexadecimal characters, of either case; any other
\* entry has no entry in trajectories.json, no output and is no source ID.
C4_EitherCase ==
    Settled =>
        \A n \in SrcNames :
            /\ n \in lastRun.source_ids <=> IsHexDir(n)
            /\ IsHexDir(n) => (n \in IndexIds /\ out[n].kind = "dir")
            /\ ~IsHexDir(n) =>
                   (n \notin IndexIds /\ out[n].kind = "none"
                    /\ n \notin lastRun.rebuilt \cup lastRun.skipped)

C4_Witness ==
    /\ Settled
    /\ src["idUpper"].kind = "dir" /\ "idUpper" \in lastRun.source_ids
    /\ "idUpper" \in IndexIds /\ out["idUpper"].events.exists
    /\ src["nameG"].kind = "dir" /\ src["shortHex"].kind = "dir"
    /\ src["idFile"].kind = "file"

\* C5: the trajectories.json a run writes holds exactly one summary, computed
\* from the source as it is now, for each trajectory in the source, whether
\* the run found it FRESH or STALE, in descending order of the trajectory
\* directories' modification times.
C5_IndexRebuilt ==
    Settled =>
        /\ index.exists
        /\ IndexIds = {n \in SrcNames : IsHexDir(n)}
        /\ Len(index.content) = Cardinality(IndexIds)
        /\ \A i \in 1..Len(index.content) :
               index.content[i] =
                   compute_trajectory_metadata(index.content[i].id,
                                               src[index.content[i].id])
        /\ \A i, j \in 1..Len(index.content) :
               i < j => src[index.content[i].id].mtime >= src[index.content[j].id].mtime

\* two trajectories of different age, the older one found FRESH
C5_Witness ==
    /\ Settled
    /\ Len(index.content) = 2
    /\ index.content[1].created > index.content[2].created
    /\ index.content[2].id \in lastRun.skipped
    /\ index.content[1].id \in lastRun.rebuilt

\* C6: no input aborts a run: compute_trajectory_metadata returns a summary
\* for every trajectory, whatever its base_state.json and event files hold,
\* and every run goes on to write trajectories.json.
C6_NoInputAbortsRun ==
    /\ \A n \in SrcNames :
           IsTrajectory(n, src[n]) => ~compute_trajectory_metadata(n, src[n]).crash
    /\ lastRun.ran => (~lastRun.crashed /\ lastRun.wroteIndex)

\* C10: after a completed run, the stored events.json of every source
\* trajectory is the list of events parsed from its event files as they are
\* (checked under SpacedSpec: no change shares a clock value with the run
\* before it).
C10_EventsOutputCurrent ==
    Settled =>
        \A n \in lastRun.source_ids :
            /\ out[n].events.exists
            /\ out[n].events.content = build_events(src[n])

====
